---- MODULE Spec2Model ----
(***************************************************************************)
(* CHIP-8 interpreter of chip8-rs: the Processor of src/processor.rs as a  *)
(* state machine.  One action per entry point that main.rs calls:          *)
(* load_rom once, then tick for every keypad snapshot the host polls.      *)
(* A Rust panic ends the program; the state it leaves behind is kept with  *)
(* status = "panicked" and no further step is taken from it.               *)
(***************************************************************************)
EXTENDS Integers, Sequences, FiniteSets, TLC

VARIABLES registers, memory, index, pc, stack, sp, delay_timer, sound_timer,
          keypad, video, opcode,
          status,           \* "new", "running" or "panicked"
          overflow_checks,  \* build profile: TRUE = debug (overflow panics), FALSE = release (wraps)
          rom_file,         \* the bytes of the file named by argv[1]
          prev1, prev2      \* history: the machine before the last tick and before the one before it

vars == <<registers, memory, index, pc, stack, sp, delay_timer, sound_timer,
          keypad, video, opcode, status, overflow_checks, rom_file, prev1, prev2>>

----------------------------------------------------------------------------
(* Program constants *)

ROM_START_ADDRESS == 512
FONTSET_START_ADDRESS == 80
REGISTERS_SIZE == 16
MEMORY_SIZE == 4096
STACK_SIZE == 16
KEYPAD_SIZE == 16
SCREEN_WIDTH == 64
SCREEN_HEIGHT == 32
CARRY_REGISTER == 15
FONT_CHARACTER_BYTES == 5

U8 == 256
U16 == 65536

\* font.rs: the standard hex font, sixteen glyphs of five bytes
FONTSET ==
  << 240, 144, 144, 144, 240,    32,  96,  32,  32, 112,
     240,  16, 240, 128, 240,   240,  16, 240,  16, 240,
     144, 144, 240,  16,  16,   240, 128, 240,  16, 240,
     240, 128, 240, 144, 240,   240,  16,  32,  64,  64,
     240, 144, 240, 144, 240,   240, 144, 240,  16, 240,
     240, 144, 240, 144, 144,   224, 144, 224, 144, 224,
     240, 128, 128, 128, 240,   224, 144, 144, 144, 224,
     240, 128, 240, 128, 240,   240, 128, 240, 128, 128 >>

----------------------------------------------------------------------------
(* Bit operations on unsigned integers *)

RECURSIVE BitAnd(_, _)
BitAnd(a, b) ==
  IF a = 0 \/ b = 0 THEN 0
  ELSE ((a % 2) * (b % 2)) + 2 * BitAnd(a \div 2, b \div 2)

RECURSIVE BitOr(_, _)
BitOr(a, b) ==
  IF a = 0 THEN b
  ELSE IF b = 0 THEN a
  ELSE (IF a % 2 = 1 \/ b % 2 = 1 THEN 1 ELSE 0) + 2 * BitOr(a \div 2, b \div 2)

RECURSIVE BitXor(_, _)
BitXor(a, b) ==
  IF a = 0 THEN b
  ELSE IF b = 0 THEN a
  ELSE ((a + b) % 2) + 2 * BitXor(a \div 2, b \div 2)

----------------------------------------------------------------------------
(* The machine as a record, so that handlers are functions of the machine *)

Machine ==
  [registers |-> registers, memory |-> memory, index |-> index, pc |-> pc,
   stack |-> stack, sp |-> sp, delay_timer |-> delay_timer,
   sound_timer |-> sound_timer, keypad |-> keypad, video |-> video,
   opcode |-> opcode, status |-> status]

\* panic!: the program ends, the mutations made so far stay in the machine
Panic(s) == [s EXCEPT !.status = "panicked"]

\* Processor::new
NewProcessor ==
  [registers |-> [i \in 0..(REGISTERS_SIZE - 1) |-> 0],
   memory |-> [a \in 0..(MEMORY_SIZE - 1) |->
                 IF a >= FONTSET_START_ADDRESS /\ a < FONTSET_START_ADDRESS + Len(FONTSET)
                 THEN FONTSET[a - FONTSET_START_ADDRESS + 1] ELSE 0],
   index |-> 0,
   pc |-> ROM_START_ADDRESS,
   stack |-> [i \in 0..(STACK_SIZE - 1) |-> 0],
   sp |-> 0,
   delay_timer |-> 0,
   sound_timer |-> 0,
   keypad |-> [i \in 0..(KEYPAD_SIZE - 1) |-> FALSE],
   video |-> [r \in 0..(SCREEN_HEIGHT - 1) |-> [c \in 0..(SCREEN_WIDTH - 1) |-> 0]],
   opcode |-> 0,
   status |-> "new"]

\* a copy loop that starts one byte too far
CopyRom_shifted(s, rom, i) ==
  LET s1 == [s EXCEPT !.memory =
               [a \in 0..(MEMORY_SIZE - 1) |->
                  IF a >= ROM_START_ADDRESS + i + 1 /\ a <= ROM_START_ADDRESS + Len(rom)
                  THEN rom[a - ROM_START_ADDRESS]
                  ELSE s.memory[a]]]
  IN IF \E j \in i..(Len(rom) - 1) : ROM_START_ADDRESS + j + 1 >= MEMORY_SIZE
     THEN Panic(s1)
     ELSE s1

\* the copy loop of load_rom, from its iteration i on: byte j goes to
\* memory[0x200 + j]; the index past the end of memory panics with the bytes
\* before it already written
CopyRom(s, rom, i) ==
  LET s1 == [s EXCEPT !.memory =
               [a \in 0..(MEMORY_SIZE - 1) |->
                  IF a >= ROM_START_ADDRESS + i /\ a < ROM_START_ADDRESS + Len(rom)
                  THEN rom[a - ROM_START_ADDRESS + 1]
                  ELSE s.memory[a]]]
  IN IF \E j \in i..(Len(rom) - 1) : ROM_START_ADDRESS + j >= MEMORY_SIZE
     THEN Panic(s1)
     ELSE s1

load_rom(s, rom) == CopyRom([s EXCEPT !.status = "running"], rom, 0)

----------------------------------------------------------------------------
(* Instruction handlers *)

op_00e0(s) ==
  [s EXCEPT !.video = [r \in 0..(SCREEN_HEIGHT - 1) |-> [c \in 0..(SCREEN_WIDTH - 1) |-> 0]]]

\* sp - 1 on a u8: with sp = 0 a debug build panics on the subtraction, a
\* release build wraps to 255 and panics on stack[255]
op_00ee(s) ==
  IF s.sp = 0
  THEN IF overflow_checks THEN Panic(s) ELSE Panic([s EXCEPT !.sp = U8 - 1])
  ELSE LET nsp == s.sp - 1
       IN IF nsp >= STACK_SIZE THEN Panic([s EXCEPT !.sp = nsp])
          ELSE [s EXCEPT !.sp = nsp, !.pc = s.stack[nsp]]

op_1nnn(s, nnn) == [s EXCEPT !.pc = nnn]

\* a CALL that pushes the address of the CALL itself
op_2nnn_pushes_call(s, nnn) ==
  IF s.sp >= STACK_SIZE THEN Panic(s)
  ELSE [s EXCEPT !.stack[s.sp] = s.pc - 2, !.sp = s.sp + 1, !.pc = nnn]

\* a CALL whose depth check is off by one
op_2nnn_off_by_one(s, nnn) ==
  IF s.sp > STACK_SIZE THEN Panic(s)
  ELSE [s EXCEPT !.stack[s.sp] = s.pc, !.sp = s.sp + 1, !.pc = nnn]

op_2nnn(s, nnn) ==
  IF s.sp >= STACK_SIZE THEN Panic(s)
  ELSE [s EXCEPT !.stack[s.sp] = s.pc, !.sp = s.sp + 1, !.pc = nnn]

op_3xkk(s, x, kk) ==
  IF s.registers[x] = kk THEN [s EXCEPT !.pc = s.pc + 2] ELSE s

op_4xkk(s, x, kk) ==
  IF s.registers[x] # kk THEN [s EXCEPT !.pc = s.pc + 2] ELSE s

op_5xy0(s, x, y) ==
  IF s.registers[x] = s.registers[y] THEN [s EXCEPT !.pc = s.pc + 2] ELSE s

op_6xkk(s, x, kk) == [s EXCEPT !.registers[x] = kk]

op_7xkk(s, x, kk) == [s EXCEPT !.registers[x] = (s.registers[x] + kk) % U8]

op_8xy0(s, x, y) == [s EXCEPT !.registers[x] = s.registers[y]]

op_8xy1(s, x, y) == [s EXCEPT !.registers[x] = BitOr(s.registers[x], s.registers[y])]

op_8xy2(s, x, y) == [s EXCEPT !.registers[x] = BitAnd(s.registers[x], s.registers[y])]

op_8xy3(s, x, y) == [s EXCEPT !.registers[x] = BitXor(s.registers[x], s.registers[y])]

\* an addition whose carry test is off by one
op_8xy4_carry_at_255(s, x, y) ==
  LET result == s.registers[x] + s.registers[y]
      s1 == [s EXCEPT !.registers[x] = result % U8]
  IN [s1 EXCEPT !.registers[CARRY_REGISTER] = IF result >= 255 THEN 1 ELSE 0]

\* result into Vx first, carry into VF second
op_8xy4(s, x, y) ==
  LET result == s.registers[x] + s.registers[y]
      s1 == [s EXCEPT !.registers[x] = result % U8]
  IN [s1 EXCEPT !.registers[CARRY_REGISTER] = IF result > 255 THEN 1 ELSE 0]

\* flag into VF first, then Vx = Vx - Vy read from the registers as they are then
op_8xy5(s, x, y) ==
  LET s1 == [s EXCEPT !.registers[CARRY_REGISTER] =
                         IF s.registers[x] > s.registers[y] THEN 1 ELSE 0]
  IN [s1 EXCEPT !.registers[x] = (s1.registers[x] - s1.registers[y]) % U8]

op_8xy6(s, x) ==
  LET s1 == [s EXCEPT !.registers[CARRY_REGISTER] = s.registers[x] % 2]
  IN [s1 EXCEPT !.registers[x] = s1.registers[x] \div 2]

op_8xy7(s, x, y) ==
  LET s1 == [s EXCEPT !.registers[CARRY_REGISTER] =
                         IF s.registers[y] > s.registers[x] THEN 1 ELSE 0]
  IN [s1 EXCEPT !.registers[x] = (s1.registers[y] - s1.registers[x]) % U8]

op_8xye(s, x) ==
  LET s1 == [s EXCEPT !.registers[CARRY_REGISTER] = BitAnd(s.registers[x], 128) \div 128]
  IN [s1 EXCEPT !.registers[x] = (s1.registers[x] * 2) % U8]

op_9xy0(s, x, y) ==
  IF s.registers[x] # s.registers[y] THEN [s EXCEPT !.pc = s.pc + 2] ELSE s

op_annn(s, nnn) == [s EXCEPT !.index = nnn]

op_bnnn(s, nnn) == [s EXCEPT !.pc = s.registers[0] + nnn]

\* rnum is the byte rng.gen() returns
op_cxkk(s, x, kk, rnum) == [s EXCEPT !.registers[x] = BitAnd(rnum, kk)]

\* a row drawn with OR in place of XOR
RECURSIVE DrawBits_or(_, _, _, _, _)
DrawBits_or(s, x, py, byte, bit) ==
  IF bit >= 8 THEN s
  ELSE IF s.index + byte >= MEMORY_SIZE THEN Panic(s)
  ELSE LET px == (s.registers[x] + bit) % SCREEN_WIDTH
           color == (s.memory[s.index + byte] \div (2 ^ (7 - bit))) % 2
           s1 == [s EXCEPT !.registers[CARRY_REGISTER] =
                              BitOr(s.registers[CARRY_REGISTER], color * s.video[py][px])]
           s2 == [s1 EXCEPT !.video[py][px] = BitOr(s.video[py][px], color)]
       IN DrawBits_or(s2, x, py, byte, bit + 1)

\* a row drawn with the least significant bit leftmost
RECURSIVE DrawBits_lsb_first(_, _, _, _, _)
DrawBits_lsb_first(s, x, py, byte, bit) ==
  IF bit >= 8 THEN s
  ELSE IF s.index + byte >= MEMORY_SIZE THEN Panic(s)
  ELSE LET px == (s.registers[x] + bit) % SCREEN_WIDTH
           color == (s.memory[s.index + byte] \div (2 ^ bit)) % 2
           s1 == [s EXCEPT !.registers[CARRY_REGISTER] =
                              BitOr(s.registers[CARRY_REGISTER], color * s.video[py][px])]
           s2 == [s1 EXCEPT !.video[py][px] = (s.video[py][px] + color) % 2]
       IN DrawBits_lsb_first(s2, x, py, byte, bit + 1)

\* one row of a sprite: the eight bits of memory[index + byte], most
\* significant first; Vx is read again for every bit
RECURSIVE DrawBits(_, _, _, _, _)
DrawBits(s, x, py, byte, bit) ==
  IF bit >= 8 THEN s
  ELSE IF s.index + byte >= MEMORY_SIZE THEN Panic(s)
  ELSE LET px == (s.registers[x] + bit) % SCREEN_WIDTH
           color == (s.memory[s.index + byte] \div (2 ^ (7 - bit))) % 2
           s1 == [s EXCEPT !.registers[CARRY_REGISTER] =
                              BitOr(s.registers[CARRY_REGISTER], color * s.video[py][px])]
           s2 == [s1 EXCEPT !.video[py][px] = (s.video[py][px] + color) % 2]
       IN DrawBits(s2, x, py, byte, bit + 1)

\* the rows of a sprite: Vy is read once at the start of every row
RECURSIVE DrawRows(_, _, _, _, _)
DrawRows(s, x, y, n, byte) ==
  IF byte >= n \/ s.status = "panicked" THEN s
  ELSE LET py == (s.registers[y] + byte) % SCREEN_HEIGHT
       IN DrawRows(DrawBits(s, x, py, byte, 0), x, y, n, byte + 1)

\* VF is cleared before the first coordinate is read
op_dxyn(s, x, y, n) ==
  DrawRows([s EXCEPT !.registers[CARRY_REGISTER] = 0], x, y, n, 0)

\* keypad[Vx] with the whole byte Vx as the index
op_ex9e(s, x) ==
  LET key == s.registers[x]
  IN IF key >= KEYPAD_SIZE THEN Panic(s)
     ELSE IF s.keypad[key] THEN [s EXCEPT !.pc = s.pc + 2] ELSE s

op_exa1(s, x) ==
  LET key == s.registers[x]
  IN IF key >= KEYPAD_SIZE THEN Panic(s)
     ELSE IF ~s.keypad[key] THEN [s EXCEPT !.pc = s.pc + 2] ELSE s

op_fx07(s, x) == [s EXCEPT !.registers[x] = s.delay_timer]

\* the scan "for i in 0..16" with its break: the first pressed key from i
\* upwards, or -1 when the loop ends with found = false
RECURSIVE ScanKeys(_, _)
ScanKeys(kp, i) ==
  IF i >= 16 THEN -1
  ELSE IF kp[i] THEN i
  ELSE ScanKeys(kp, i + 1)

\* the scan run from key 15 downwards
RECURSIVE ScanKeysDown(_, _)
ScanKeysDown(kp, i) ==
  IF i < 0 THEN -1
  ELSE IF kp[i] THEN i
  ELSE ScanKeysDown(kp, i - 1)

op_fx0a_last_key(s, x) ==
  LET k == ScanKeysDown(s.keypad, 15)
  IN IF k >= 0 THEN [s EXCEPT !.registers[x] = k]
     ELSE [s EXCEPT !.pc = s.pc - 2]

\* a wait that stores key 0 when nothing is pressed instead of rewinding
op_fx0a_no_rewind(s, x) ==
  LET k == ScanKeys(s.keypad, 0)
  IN IF k >= 0 THEN [s EXCEPT !.registers[x] = k]
     ELSE [s EXCEPT !.registers[x] = 0]

op_fx0a(s, x) ==
  LET k == ScanKeys(s.keypad, 0)
  IN IF k >= 0 THEN [s EXCEPT !.registers[x] = k]
     ELSE [s EXCEPT !.pc = s.pc - 2]

op_fx15(s, x) == [s EXCEPT !.delay_timer = s.registers[x]]

op_fx18(s, x) == [s EXCEPT !.sound_timer = s.registers[x]]

\* u16 addition: a debug build panics on overflow, a release build wraps
op_fx1e(s, x) ==
  LET sum == s.index + s.registers[x]
  IN IF sum >= U16
     THEN IF overflow_checks THEN Panic(s) ELSE [s EXCEPT !.index = sum % U16]
     ELSE [s EXCEPT !.index = sum]

\* (FONTSET_START_ADDRESS + FONT_CHARACTER_BYTES * digit) in u8 arithmetic,
\* widened to u16 only afterwards
op_fx29(s, x) ==
  LET digit == s.registers[x]
      prod == FONT_CHARACTER_BYTES * digit
      sum == FONTSET_START_ADDRESS + (prod % U8)
  IN IF (prod >= U8 \/ sum >= U8) /\ overflow_checks THEN Panic(s)
     ELSE [s EXCEPT !.index = sum % U8]

\* a BCD whose tens digit is not reduced below ten
op_fx33_wide_tens(s, x) ==
  LET vx == s.registers[x]
  IN IF s.index + 2 >= MEMORY_SIZE THEN Panic(s)
     ELSE [s EXCEPT !.memory[s.index] = vx \div 100,
                    !.memory[s.index + 1] = vx \div 10,
                    !.memory[s.index + 2] = vx % 10]

\* a BCD store whose addresses wrap round the end of memory
op_fx33_wrapping(s, x) ==
  LET vx == s.registers[x]
  IN [s EXCEPT !.memory[s.index % MEMORY_SIZE] = vx \div 100,
               !.memory[(s.index + 1) % MEMORY_SIZE] = (vx % 100) \div 10,
               !.memory[(s.index + 2) % MEMORY_SIZE] = vx % 10]

\* three stores in order; each one is bounds-checked on its own
op_fx33(s, x) ==
  LET vx == s.registers[x]
  IN IF s.index >= MEMORY_SIZE THEN Panic(s)
     ELSE LET s1 == [s EXCEPT !.memory[s.index] = vx \div 100]
          IN IF s.index + 1 >= MEMORY_SIZE THEN Panic(s1)
             ELSE LET s2 == [s1 EXCEPT !.memory[s.index + 1] = (vx % 100) \div 10]
                  IN IF s.index + 2 >= MEMORY_SIZE THEN Panic(s2)
                     ELSE [s2 EXCEPT !.memory[s.index + 2] = vx % 10]

\* a store loop that stops before Vx
RECURSIVE StoreRegs_exclusive(_, _, _)
StoreRegs_exclusive(s, x, i) ==
  IF i >= x THEN s
  ELSE IF s.index + i >= MEMORY_SIZE THEN Panic(s)
  ELSE StoreRegs_exclusive([s EXCEPT !.memory[s.index + i] = s.registers[i]], x, i + 1)

\* the loop of op_fx55, for i in 0..x + 1
RECURSIVE StoreRegs(_, _, _)
StoreRegs(s, x, i) ==
  IF i >= x + 1 THEN s
  ELSE IF s.index + i >= MEMORY_SIZE THEN Panic(s)
  ELSE StoreRegs([s EXCEPT !.memory[s.index + i] = s.registers[i]], x, i + 1)

op_fx55(s, x) == StoreRegs(s, x, 0)

\* a load loop that copies the wrong way, registers to memory
RECURSIVE LoadRegs_stores(_, _, _)
LoadRegs_stores(s, x, i) ==
  IF i >= x + 1 THEN s
  ELSE IF s.index + i >= MEMORY_SIZE THEN Panic(s)
  ELSE LoadRegs_stores([s EXCEPT !.memory[s.index + i] = s.registers[i]], x, i + 1)

\* the loop of op_fx65, for i in 0..x + 1
RECURSIVE LoadRegs(_, _, _)
LoadRegs(s, x, i) ==
  IF i >= x + 1 THEN s
  ELSE IF s.index + i >= MEMORY_SIZE THEN Panic(s)
  ELSE LoadRegs([s EXCEPT !.registers[i] = s.memory[s.index + i]], x, i + 1)

op_fx65(s, x) == LoadRegs(s, x, 0)

----------------------------------------------------------------------------
(* Fetch, decode, dispatch *)

Nib3(op) == op \div 4096
Nib2(op) == (op \div 256) % 16
Nib1(op) == (op \div 16) % 16
Nib0(op) == op % 16
NNN(op) == op % 4096
KK(op) == op % 256

\* both bytes are bounds-checked reads
CanFetch(s) == s.pc < MEMORY_SIZE /\ s.pc + 1 < MEMORY_SIZE

get_opcode(s) == s.memory[s.pc] * 256 + s.memory[s.pc + 1]

\* a dispatch that takes every 5xyn for 5xy0
run_opcode_any_5xyn(s, rnum) ==
  LET op == s.opcode
      p3 == Nib3(op)
      x == Nib2(op)
      y == Nib1(op)
      n == Nib0(op)
      nnn == NNN(op)
      kk == KK(op)
  IN CASE p3 = 0 /\ x = 0 /\ y = 14 /\ n = 0 -> op_00e0(s)
       [] p3 = 0 /\ x = 0 /\ y = 14 /\ n = 14 -> op_00ee(s)
       [] p3 = 1 -> op_1nnn(s, nnn)
       [] p3 = 2 -> op_2nnn(s, nnn)
       [] p3 = 3 -> op_3xkk(s, x, kk)
       [] p3 = 4 -> op_4xkk(s, x, kk)
       [] p3 = 5 -> op_5xy0(s, x, y)
       [] p3 = 6 -> op_6xkk(s, x, kk)
       [] p3 = 7 -> op_7xkk(s, x, kk)
       [] p3 = 8 /\ n = 0 -> op_8xy0(s, x, y)
       [] p3 = 8 /\ n = 1 -> op_8xy1(s, x, y)
       [] p3 = 8 /\ n = 2 -> op_8xy2(s, x, y)
       [] p3 = 8 /\ n = 3 -> op_8xy3(s, x, y)
       [] p3 = 8 /\ n = 4 -> op_8xy4(s, x, y)
       [] p3 = 8 /\ n = 5 -> op_8xy5(s, x, y)
       [] p3 = 8 /\ n = 6 -> op_8xy6(s, x)
       [] p3 = 8 /\ n = 7 -> op_8xy7(s, x, y)
       [] p3 = 8 /\ n = 14 -> op_8xye(s, x)
       [] p3 = 9 /\ n = 0 -> op_9xy0(s, x, y)
       [] p3 = 10 -> op_annn(s, nnn)
       [] p3 = 11 -> op_bnnn(s, nnn)
       [] p3 = 12 -> op_cxkk(s, x, kk, rnum)
       [] p3 = 13 -> op_dxyn(s, x, y, n)
       [] p3 = 14 /\ y = 9 /\ n = 14 -> op_ex9e(s, x)
       [] p3 = 14 /\ y = 10 /\ n = 1 -> op_exa1(s, x)
       [] p3 = 15 /\ y = 0 /\ n = 7 -> op_fx07(s, x)
       [] p3 = 15 /\ y = 0 /\ n = 10 -> op_fx0a(s, x)
       [] p3 = 15 /\ y = 1 /\ n = 5 -> op_fx15(s, x)
       [] p3 = 15 /\ y = 1 /\ n = 8 -> op_fx18(s, x)
       [] p3 = 15 /\ y = 1 /\ n = 14 -> op_fx1e(s, x)
       [] p3 = 15 /\ y = 2 /\ n = 9 -> op_fx29(s, x)
       [] p3 = 15 /\ y = 3 /\ n = 3 -> op_fx33(s, x)
       [] p3 = 15 /\ y = 5 /\ n = 5 -> op_fx55(s, x)
       [] p3 = 15 /\ y = 6 /\ n = 5 -> op_fx65(s, x)
       [] OTHER -> Panic(s)

\* the match of run_opcode: the first arm whose pattern fits, else the panic
run_opcode(s, rnum) ==
  LET op == s.opcode
      p3 == Nib3(op)
      x == Nib2(op)
      y == Nib1(op)
      n == Nib0(op)
      nnn == NNN(op)
      kk == KK(op)
  IN CASE p3 = 0 /\ x = 0 /\ y = 14 /\ n = 0 -> op_00e0(s)
       [] p3 = 0 /\ x = 0 /\ y = 14 /\ n = 14 -> op_00ee(s)
       [] p3 = 1 -> op_1nnn(s, nnn)
       [] p3 = 2 -> op_2nnn(s, nnn)
       [] p3 = 3 -> op_3xkk(s, x, kk)
       [] p3 = 4 -> op_4xkk(s, x, kk)
       [] p3 = 5 /\ n = 0 -> op_5xy0(s, x, y)
       [] p3 = 6 -> op_6xkk(s, x, kk)
       [] p3 = 7 -> op_7xkk(s, x, kk)
       [] p3 = 8 /\ n = 0 -> op_8xy0(s, x, y)
       [] p3 = 8 /\ n = 1 -> op_8xy1(s, x, y)
       [] p3 = 8 /\ n = 2 -> op_8xy2(s, x, y)
       [] p3 = 8 /\ n = 3 -> op_8xy3(s, x, y)
       [] p3 = 8 /\ n = 4 -> op_8xy4(s, x, y)
       [] p3 = 8 /\ n = 5 -> op_8xy5(s, x, y)
       [] p3 = 8 /\ n = 6 -> op_8xy6(s, x)
       [] p3 = 8 /\ n = 7 -> op_8xy7(s, x, y)
       [] p3 = 8 /\ n = 14 -> op_8xye(s, x)
       [] p3 = 9 /\ n = 0 -> op_9xy0(s, x, y)
       [] p3 = 10 -> op_annn(s, nnn)
       [] p3 = 11 -> op_bnnn(s, nnn)
       [] p3 = 12 -> op_cxkk(s, x, kk, rnum)
       [] p3 = 13 -> op_dxyn(s, x, y, n)
       [] p3 = 14 /\ y = 9 /\ n = 14 -> op_ex9e(s, x)
       [] p3 = 14 /\ y = 10 /\ n = 1 -> op_exa1(s, x)
       [] p3 = 15 /\ y = 0 /\ n = 7 -> op_fx07(s, x)
       [] p3 = 15 /\ y = 0 /\ n = 10 -> op_fx0a(s, x)
       [] p3 = 15 /\ y = 1 /\ n = 5 -> op_fx15(s, x)
       [] p3 = 15 /\ y = 1 /\ n = 8 -> op_fx18(s, x)
       [] p3 = 15 /\ y = 1 /\ n = 14 -> op_fx1e(s, x)
       [] p3 = 15 /\ y = 2 /\ n = 9 -> op_fx29(s, x)
       [] p3 = 15 /\ y = 3 /\ n = 3 -> op_fx33(s, x)
       [] p3 = 15 /\ y = 5 /\ n = 5 -> op_fx55(s, x)
       [] p3 = 15 /\ y = 6 /\ n = 5 -> op_fx65(s, x)
       [] OTHER -> Panic(s)

\* a tick that steps the delay timer only
tick_timers_delay_only(s, kp) ==
  [s EXCEPT !.keypad = kp,
            !.delay_timer = IF s.delay_timer > 0 THEN s.delay_timer - 1 ELSE 0]

\* a tick whose timers stop at 1
tick_timers_stop_at_one(s, kp) ==
  [s EXCEPT !.keypad = kp,
            !.delay_timer = IF s.delay_timer > 1 THEN s.delay_timer - 1 ELSE s.delay_timer,
            !.sound_timer = IF s.sound_timer > 1 THEN s.sound_timer - 1 ELSE s.sound_timer]

\* the keypad latch and the two timer decrements that open every tick
tick_timers(s, kp) ==
  [s EXCEPT !.keypad = kp,
            !.delay_timer = IF s.delay_timer > 0 THEN s.delay_timer - 1 ELSE 0,
            !.sound_timer = IF s.sound_timer > 0 THEN s.sound_timer - 1 ELSE 0]

tick(s, kp, rnum) ==
  LET s1 == tick_timers(s, kp)
  IN IF ~CanFetch(s1) THEN Panic(s1)
     ELSE LET s2 == [s1 EXCEPT !.opcode = get_opcode(s1)]
              s3 == [s2 EXCEPT !.pc = s2.pc + 2]
          IN run_opcode(s3, rnum)

----------------------------------------------------------------------------
(* The host: main.rs builds the Processor, loads the ROM named on the      *)
(* command line and then calls tick with each keypad the input polls.      *)

\* keys the user touches, and how many of them at once
HostKeys == {7, 15}
MaxPressed == 2

Keypads ==
  { [k \in 0..(KEYPAD_SIZE - 1) |-> k \in P] :
      P \in { Q \in SUBSET HostKeys : Cardinality(Q) <= MaxPressed } }

\* a ROM image written as 16-bit big-endian instruction words
RECURSIVE Bytes(_)
Bytes(words) ==
  IF words = << >> THEN << >>
  ELSE << Head(words) \div 256, Head(words) % 256 >> \o Bytes(Tail(words))

Ins(a, b, c, d) == a * 4096 + b * 256 + c * 16 + d
InsK(a, x, kk) == a * 4096 + x * 256 + kk
InsN(a, nnn) == a * 4096 + nnn

\* what the machine looked like before a tick
Snapshot(s) ==
  [registers |-> s.registers, index |-> s.index, pc |-> s.pc, sp |-> s.sp,
   delay_timer |-> s.delay_timer, sound_timer |-> s.sound_timer,
   video |-> s.video, opcode |-> s.opcode, status |-> s.status]

\* rng.gen() is called by op_cxkk only; of the 256 bytes it can return, one
\* for every value that the mask of the fetched instruction lets through
RandomBytes(s) ==
  IF CanFetch(s) /\ Nib3(get_opcode(s)) = 12
  THEN { BitAnd(r, KK(get_opcode(s))) : r \in 0..(U8 - 1) }
  ELSE {0}

Install(s) ==
  /\ registers' = s.registers
  /\ memory' = s.memory
  /\ index' = s.index
  /\ pc' = s.pc
  /\ stack' = s.stack
  /\ sp' = s.sp
  /\ delay_timer' = s.delay_timer
  /\ sound_timer' = s.sound_timer
  /\ keypad' = s.keypad
  /\ video' = s.video
  /\ opcode' = s.opcode
  /\ status' = s.status

InitWith(roms) ==
  /\ registers = NewProcessor.registers
  /\ memory = NewProcessor.memory
  /\ index = NewProcessor.index
  /\ pc = NewProcessor.pc
  /\ stack = NewProcessor.stack
  /\ sp = NewProcessor.sp
  /\ delay_timer = NewProcessor.delay_timer
  /\ sound_timer = NewProcessor.sound_timer
  /\ keypad = NewProcessor.keypad
  /\ video = NewProcessor.video
  /\ opcode = NewProcessor.opcode
  /\ status = NewProcessor.status
  /\ overflow_checks \in BOOLEAN
  /\ rom_file \in roms
  /\ prev1 = Snapshot(NewProcessor)
  /\ prev2 = Snapshot(NewProcessor)

LoadRom ==
  /\ status = "new"
  /\ Install(load_rom(Machine, rom_file))
  /\ UNCHANGED <<overflow_checks, rom_file, prev1, prev2>>

Tick(kp, rnum) ==
  /\ status = "running"
  /\ Install(tick(Machine, kp, rnum))
  /\ prev1' = Snapshot(Machine)
  /\ prev2' = prev1
  /\ UNCHANGED <<overflow_checks, rom_file>>

Next ==
  \/ LoadRom
  \/ \E kp \in Keypads : \E rnum \in RandomBytes(Machine) : Tick(kp, rnum)

----------------------------------------------------------------------------
(* ROM images *)

\* both timers set from a random register, twice over, read back, then a
\* key wait, in a loop
TimerRom ==
  Bytes(<< InsK(12, 0, 3), Ins(15, 0, 1, 5), Ins(15, 0, 1, 8),
           InsK(12, 0, 3), Ins(15, 0, 1, 5), Ins(15, 0, 1, 8),
           Ins(15, 2, 0, 7), Ins(15, 3, 0, 10), InsN(1, 512) >>)

\* key waits into V0 and into VF
KeyRom == Bytes(<< Ins(15, 0, 0, 10), Ins(15, 15, 0, 10), InsN(1, 512) >>)

\* recursion to any depth, a CALL to a RET at every depth, then unwinding
CallRom ==
  Bytes(<< InsK(12, 0, 1), InsK(3, 0, 1), InsN(2, 512), InsN(2, 522),
           Ins(0, 0, 14, 14), Ins(0, 0, 14, 14) >>)

\* writes the instruction b0 b1 into the last two bytes of memory and jumps to it
LastWordRom(b0, b1) ==
  Bytes(<< InsN(10, 4094), InsK(6, 0, b0), InsK(6, 1, b1), Ins(15, 1, 5, 5),
           InsN(1, 4094), Ins(0, 0, 14, 14) >>)

\* JP V0, nnn with a random V0
JumpV0Rom(nnn) == Bytes(<< InsK(12, 0, 31), InsN(11, nnn) >>)

JumpRom(nnn) == Bytes(<< InsN(1, nnn) >>)

\* random coordinates (Vx = (rnd & kx) + ax, Vy = (rnd & ky) + ay), one draw
\* of the n bytes at pre, then three draws of the n bytes at addr, then a halt
DrawRom(x, y, kx, ax, ky, ay, pre, addr, n) ==
  Bytes(<< InsK(12, x, kx), InsK(7, x, ax), InsK(12, y, ky), InsK(7, y, ay),
           InsN(10, pre), Ins(13, x, y, n),
           InsN(10, addr), Ins(13, x, y, n), Ins(13, x, y, n), Ins(13, x, y, n),
           InsN(1, 532) >>)

DrawRoms ==
  { DrawRom(0, 1, 5, 59, 20, 12, 85, 80, 5),
    DrawRom(0, 1, 5, 59, 20, 12, 80, 80, 5),
    DrawRom(2, 2, 5, 27, 0, 0, 80, 85, 5),
    DrawRom(15, 1, 0, 0, 16, 12, 0, 80, 5),
    DrawRom(0, 15, 1, 62, 0, 0, 0, 80, 5),
    DrawRom(3, 4, 1, 0, 1, 0, 80, 0, 5),
    DrawRom(3, 4, 1, 0, 1, 0, 80, 80, 0),
    DrawRom(0, 1, 1, 0, 1, 0, 80, 4093, 15),
    DrawRom(0, 1, 1, 0, 1, 0, 4090, 80, 9) }

\* BCD of a random Vx = rnd & kx at addr, read back into V0..V2
BcdRom(x, kx, addr) ==
  Bytes(<< InsK(12, x, kx), InsN(10, addr), Ins(15, x, 3, 3), Ins(15, 2, 6, 5) >>)

BcdRoms ==
  { BcdRom(2, 255, 768), BcdRom(15, 255, 4093), BcdRom(0, 205, 768),
    BcdRom(7, 205, 768), BcdRom(3, 205, 4094) }

\* one 8xyn instruction on random operands Vx = rnd & kx, Vy = rnd & ky
AluRom(x, y, n, kx, ky) ==
  Bytes(<< InsK(12, x, kx), InsK(12, y, ky), Ins(8, x, y, n) >>)

\* the add-with-carry scenario: V0 = 0xFF, V1 = 0x01, V0 += V1
AddCarryRom == Bytes(<< InsK(6, 0, 255), InsK(6, 1, 1), Ins(8, 0, 1, 4) >>)

AddRoms ==
  { AluRom(0, 1, 4, 255, 1), AluRom(1, 0, 4, 131, 131), AluRom(3, 3, 4, 0, 255),
    AluRom(0, 15, 4, 131, 131), AluRom(15, 0, 4, 131, 131),
    AluRom(15, 15, 4, 0, 255), AddCarryRom }

FlagOps == {4, 5, 6, 7, 14}

FlagRoms ==
  { AluRom(15, y, n, 131, 131) : y \in {0, 15}, n \in FlagOps }

\* the largest ROM that fits: a jump to itself, then filler up to the last byte
FullRom ==
  [i \in 1..(MEMORY_SIZE - ROM_START_ADDRESS) |->
     IF i = 1 THEN 18 ELSE IF i = 2 THEN 0 ELSE 1 + (i % 7)]

\* one byte more than fits
BigRom == [i \in 1..(MEMORY_SIZE - ROM_START_ADDRESS + 1) |-> 1 + (i % 7)]

LoadRoms == { << >>, KeyRom, AddCarryRom, FullRom, BigRom }

\* V0 = 12, V1 = 10, then the instruction word w
DispatchRom(w) == Bytes(<< InsK(6, 0, 12), InsK(6, 1, 10), w >>)

\* one instruction word for each arm of the match
KnownWords ==
  { Ins(0, 0, 14, 0), Ins(0, 0, 14, 14), InsN(1, 520), InsN(2, 520),
    InsK(3, 0, 12), InsK(4, 0, 12), Ins(5, 0, 1, 0), InsK(6, 0, 51),
    InsK(7, 0, 5), Ins(8, 0, 1, 0), Ins(8, 0, 1, 1), Ins(8, 0, 1, 2),
    Ins(8, 0, 1, 3), Ins(8, 0, 1, 4), Ins(8, 0, 1, 5), Ins(8, 0, 1, 6),
    Ins(8, 0, 1, 7), Ins(8, 0, 1, 14), Ins(9, 0, 1, 0), InsN(10, 291),
    InsN(11, 768), InsK(12, 0, 3), Ins(13, 0, 1, 5), Ins(14, 0, 9, 14),
    Ins(14, 0, 10, 1), Ins(15, 0, 0, 7), Ins(15, 0, 0, 10), Ins(15, 0, 1, 5),
    Ins(15, 0, 1, 8), Ins(15, 0, 1, 14), Ins(15, 0, 2, 9), Ins(15, 0, 3, 3),
    Ins(15, 0, 5, 5), Ins(15, 0, 6, 5) }

\* instruction words that fit no arm
UnknownWords ==
  { Ins(0, 0, 0, 0), Ins(0, 1, 2, 3), Ins(0, 0, 14, 1), Ins(0, 1, 14, 0),
    Ins(5, 0, 1, 1), Ins(8, 0, 1, 8), Ins(8, 0, 1, 15), Ins(9, 0, 1, 1),
    Ins(14, 0, 0, 0), Ins(14, 0, 9, 1), Ins(14, 0, 10, 14),
    Ins(15, 0, 0, 0), Ins(15, 0, 5, 6), Ins(15, 0, 15, 15) }

DispatchRoms == { DispatchRom(w) : w \in KnownWords \cup UnknownWords }

\* a random Vx = rnd & kx, then the one-register instruction E/F x lo
IndexRom(x, kx, hi, lo) == Bytes(<< InsK(12, x, kx), InsK(hi, x, lo) >>)

\* font lookups, and key tests of both kinds, on V0 and on VF
IndexRoms ==
  { IndexRom(0, 255, 15, 41), IndexRom(15, 26, 15, 41),
    IndexRom(0, 31, 14, 158), IndexRom(15, 31, 14, 158),
    IndexRom(0, 31, 14, 161), IndexRom(15, 23, 14, 161) }

\* draws that take a coordinate from VF
DrawFlagRoms ==
  { DrawRom(15, 1, 0, 10, 0, 0, 80, 80, 5),
    DrawRom(0, 15, 0, 0, 0, 3, 85, 80, 5),
    DrawRom(15, 15, 0, 0, 1, 4, 0, 80, 5) }

\* subtractions in both directions, with Vy = V1, Vy = VF and Vy = Vx
SubRoms ==
  { AluRom(0, 15, 5, 7, 3), AluRom(0, 15, 7, 7, 3),
    AluRom(0, 1, 5, 131, 131), AluRom(0, 1, 7, 131, 131),
    AluRom(3, 3, 5, 0, 255), AluRom(3, 3, 7, 0, 255) }

\* V0 random, V1 = 0x22, VF = 0xEE; V0..Vx stored at addr, then V0..Vx
\* loaded from the font
RegsRom(x, addr) ==
  Bytes(<< InsK(12, 0, 3), InsK(6, 1, 34), InsK(6, 15, 238), InsN(10, addr),
           Ins(15, x, 5, 5), InsN(10, 80), Ins(15, x, 6, 5) >>)

RegsRoms ==
  { RegsRom(0, 768), RegsRom(1, 768), RegsRom(15, 768), RegsRom(15, 4080),
    RegsRom(1, 4094), RegsRom(15, 4090), RegsRom(0, 4095) }

\* delay timer from a random V0, sound timer from a random V1, then a key
\* wait and a halt
WaitRom(k0, k1) ==
  Bytes(<< InsK(12, 0, k0), Ins(15, 0, 1, 5), InsK(12, 1, k1), Ins(15, 1, 1, 8),
           Ins(15, 2, 0, 10), InsN(1, 522) >>)

WaitRoms == { WaitRom(12, 6), WaitRom(3, 0), WaitRom(0, 9) }

\* V1 = 234, I = 4090 + (rnd & k), then the instruction word w
BoundsRom(k, w) ==
  Bytes(<< InsK(6, 1, 234), InsN(10, 4090), InsK(12, 0, k), Ins(15, 0, 1, 14), w >>)

\* accesses through I around the end of memory, and fetches through PC at
\* and past it
BoundsRoms ==
  { BoundsRom(7, Ins(13, 1, 2, 5)), BoundsRom(7, Ins(13, 1, 2, 0)),
    BoundsRom(7, Ins(15, 1, 3, 3)), BoundsRom(7, Ins(15, 2, 5, 5)),
    BoundsRom(7, Ins(15, 2, 6, 5)),
    JumpRom(4095), JumpRom(4094), LastWordRom(96, 0), JumpV0Rom(4080) }

\* the instruction word w, n times over
RepeatWord(w, n) == [i \in 1..(2 * n) |-> IF i % 2 = 1 THEN w \div 256 ELSE w % 256]

\* V0 = v, VF = 7, I = nnn, then I += V0 n times in a row
AddIndexRom(v, nnn, n) ==
  Bytes(<< InsK(6, 0, v), InsK(6, 15, 7), InsN(10, nnn) >>)
    \o RepeatWord(Ins(15, 0, 1, 14), n)

\* I += VF once
AddIndexFlagRom == Bytes(<< InsK(6, 15, 7), InsN(10, 4095), Ins(15, 15, 1, 14) >>)

\* 241 additions of 255 take I from 0xFFF past 0xFFFF
AddIndexRoms ==
  { AddIndexRom(255, 4095, 243), AddIndexRom(0, 291, 2), AddIndexFlagRom }

\* V0 = 12, V1 = 10, glyph 0 drawn at (12, 10) with I left on the font, then
\* the instruction word w
FrameRom(w) ==
  Bytes(<< InsK(6, 0, 12), InsK(6, 1, 10), InsN(10, 80), Ins(13, 0, 1, 5), w >>)

\* every arm of the match, run on a lit framebuffer with I on the font, and
\* stores, a load and a tall draw on other registers
FrameRoms ==
  { FrameRom(w) : w \in KnownWords } \cup
  { FrameRom(Ins(15, 1, 3, 3)), FrameRom(Ins(15, 3, 5, 5)),
    FrameRom(Ins(15, 15, 6, 5)), FrameRom(Ins(13, 1, 0, 15)) }

ControlRoms ==
  { TimerRom, KeyRom, CallRom, LastWordRom(96, 0), LastWordRom(34, 10),
    JumpV0Rom(4080), JumpRom(4095), JumpRom(512) }

Init == InitWith(ControlRoms)

Spec == Init /\ [][Next]_vars

InitDraw == InitWith(DrawRoms)

InitBcd == InitWith(BcdRoms)

SpecBcd == InitBcd /\ [][Next]_vars

InitAdd == InitWith(AddRoms)

SpecAdd == InitAdd /\ [][Next]_vars

InitFlags == InitWith(FlagRoms)

SpecFlags == InitFlags /\ [][Next]_vars

SpecDraw == InitDraw /\ [][Next]_vars

InitLoad == InitWith(LoadRoms)

SpecLoad == InitLoad /\ [][Next]_vars

InitDispatch == InitWith(DispatchRoms)

SpecDispatch == InitDispatch /\ [][Next]_vars

InitIndex == InitWith(IndexRoms)

SpecIndex == InitIndex /\ [][Next]_vars

InitDrawFlag == InitWith(DrawFlagRoms)

SpecDrawFlag == InitDrawFlag /\ [][Next]_vars

InitSub == InitWith(SubRoms)

SpecSub == InitSub /\ [][Next]_vars

InitRegs == InitWith(RegsRoms)

SpecRegs == InitRegs /\ [][Next]_vars

InitWait == InitWith(WaitRoms)

SpecWait == InitWait /\ [][Next]_vars

InitBounds == InitWith(BoundsRoms)

SpecBounds == InitBounds /\ [][Next]_vars

InitAddIndex == InitWith(AddIndexRoms)

SpecAddIndex == InitAddIndex /\ [][Next]_vars

InitFrame == InitWith(FrameRoms)

SpecFrame == InitFrame /\ [][Next]_vars

----------------------------------------------------------------------------
(* Vocabulary of the properties *)

Running == status = "running"

\* the step is a tick that returns
TickCompletes == status = "running" /\ status' = "running"

\* the instruction the next tick fetches
CanFetchNow == status = "running" /\ CanFetch(Machine)
Fetched == get_opcode(Machine)

\* the last tick, and the last two ticks, returned
OneTickDone == status = "running" /\ prev1.status = "running"
TwoTicksDone == OneTickDone /\ prev2.status = "running"

\* two ticks were made and the first of them returned
TwoTicksMade == prev1.status = "running" /\ prev2.status = "running"

IsFx(op, lo) == Nib3(op) = 15 /\ op % 256 = lo
IsFx0A(op) == IsFx(op, 10)
IsFx15(op) == IsFx(op, 21)
IsFx18(op) == IsFx(op, 24)
IsCall(op) == Nib3(op) = 2
IsRet(op) == op = 238

CountDown(t) == IF t > 0 THEN t - 1 ELSE 0

NoKey == [k \in 0..(KEYPAD_SIZE - 1) |-> FALSE]
SomeKey(kp) == \E k \in 0..(KEYPAD_SIZE - 1) : kp[k]
LowestKey(kp) ==
  CHOOSE k \in 0..(KEYPAD_SIZE - 1) :
    kp[k] /\ \A j \in 0..(KEYPAD_SIZE - 1) : kp[j] => k <= j

----------------------------------------------------------------------------
(* C1 as stated: on every tick that returns, whatever instruction it ran,   *)
(* each timer ends one below its value before the tick, or at 0 if it was 0 *)
C1_EveryInstruction ==
  [][TickCompletes =>
       /\ delay_timer' = CountDown(delay_timer)
       /\ sound_timer' = CountDown(sound_timer)]_vars

(* C1 amended: on every tick that returns, delay_timer ends at Vx if the    *)
(* tick ran Fx15 and otherwise one below its value before the tick (0 stays *)
(* 0); sound_timer likewise with Fx18                                       *)
C1_Timers ==
  [][TickCompletes =>
       /\ delay_timer' = IF IsFx15(opcode') THEN registers[Nib2(opcode')]
                         ELSE CountDown(delay_timer)
       /\ sound_timer' = IF IsFx18(opcode') THEN registers[Nib2(opcode')]
                         ELSE CountDown(sound_timer)]_vars

\* a tick that ran Fx15 on a running delay timer, and loaded it from Vx
C1_Witness ==
  /\ OneTickDone
  /\ IsFx15(opcode)
  /\ prev1.delay_timer = 1
  /\ prev1.sound_timer = 2
  /\ registers[Nib2(opcode)] = 3
  /\ delay_timer = 3
  /\ sound_timer = 1

(* C2: a tick that finds Fx0A at PC and is given a keypad with no key       *)
(* pressed returns with PC where it was, and with the registers, I, SP, the *)
(* stack, memory and the framebuffer unchanged, however often it repeats    *)
C2_KeyWait ==
  [][(CanFetchNow /\ IsFx0A(Fetched) /\ keypad' = NoKey) =>
       /\ status' = "running"
       /\ pc' = pc
       /\ registers' = registers
       /\ index' = index
       /\ sp' = sp
       /\ stack' = stack
       /\ memory' = memory
       /\ video' = video]_vars

\* two waiting ticks in a row on the same Fx0A
C2_Witness ==
  /\ TwoTicksDone
  /\ IsFx0A(opcode) /\ IsFx0A(prev1.opcode)
  /\ keypad = NoKey
  /\ pc = prev1.pc /\ pc = prev2.pc
  /\ prev2.sound_timer = 2 /\ sound_timer = 0

(* C3: a tick that runs Fx0A with a keypad in which some key is pressed     *)
(* sets Vx to the lowest pressed key of that keypad and ends at PC + 2      *)
C3_KeyPressed ==
  [][(CanFetchNow /\ IsFx0A(Fetched) /\ SomeKey(keypad')) =>
       /\ status' = "running"
       /\ registers'[Nib2(Fetched)] = LowestKey(keypad')
       /\ pc' = pc + 2]_vars

\* keys 7 and 15 pressed after a tick with none pressed: the wait ends with 7
C3_Witness ==
  /\ TwoTicksDone
  /\ IsFx0A(opcode) /\ IsFx0A(prev1.opcode)
  /\ prev1.pc = prev2.pc
  /\ keypad[7] /\ keypad[15]
  /\ registers[Nib2(opcode)] = 7
  /\ pc = prev1.pc + 2

(* C4: a CALL at address a that succeeds, followed at once by a tick that   *)
(* fetches RET, ends without failure with PC at a + 2 and SP at its value   *)
(* before the CALL                                                          *)
C4_CallRet ==
  (TwoTicksMade /\ IsCall(prev1.opcode) /\ IsRet(opcode)) =>
     /\ status = "running"
     /\ pc = prev2.pc + 2
     /\ sp = prev2.sp

\* the deepest case: a CALL made at SP = 15, then the RET
C4_Witness ==
  /\ TwoTicksDone /\ IsCall(prev1.opcode) /\ IsRet(opcode)
  /\ prev2.sp = STACK_SIZE - 1
  /\ prev1.sp = STACK_SIZE
  /\ sp = STACK_SIZE - 1

(* C7: while no tick has failed, PC is inside memory                        *)
C7_PcInRange == Running => pc \in 0..(MEMORY_SIZE - 1)

----------------------------------------------------------------------------
(* Sprite draws *)

IsDraw(op) == Nib3(op) = 13

\* the last two ticks ran the same Dxyn with the same I, Vx and Vy before each
TwoDraws ==
  /\ TwoTicksDone
  /\ IsDraw(opcode) /\ prev1.opcode = opcode
  /\ prev2.index = prev1.index
  /\ prev2.registers[Nib2(opcode)] = prev1.registers[Nib2(opcode)]
  /\ prev2.registers[Nib1(opcode)] = prev1.registers[Nib1(opcode)]

SpriteRows == 0..(Nib0(opcode) - 1)
SpriteBit(row, col) == (memory[index + row] \div (2 ^ (7 - col))) % 2
SpriteX(col) == (prev2.registers[Nib2(opcode)] + col) % SCREEN_WIDTH
SpriteY(row) == (prev2.registers[Nib1(opcode)] + row) % SCREEN_HEIGHT

(* C5 as stated: two identical draws in a row restore the framebuffer, and  *)
(* the second leaves VF = 1 exactly when the sprite has a bit set           *)
C5_AnyFramebuffer ==
  TwoDraws =>
    /\ video = prev2.video
    /\ (registers[CARRY_REGISTER] = 1) <=>
         (\E row \in SpriteRows : \E col \in 0..7 : SpriteBit(row, col) = 1)

(* C5 amended: two identical draws in a row through registers other than VF *)
(* restore the framebuffer, and the second leaves VF = 1 exactly when some  *)
(* set bit of the sprite covers a pixel that was unlit before the first     *)
(* draw, and VF = 0 otherwise                                               *)
C5_DrawTwice ==
  (TwoDraws /\ Nib2(opcode) # CARRY_REGISTER /\ Nib1(opcode) # CARRY_REGISTER) =>
    /\ video = prev2.video
    /\ registers[CARRY_REGISTER] =
         IF \E row \in SpriteRows : \E col \in 0..7 :
              /\ SpriteBit(row, col) = 1
              /\ prev2.video[SpriteY(row)][SpriteX(col)] = 0
         THEN 1 ELSE 0

\* a glyph drawn twice over another glyph, wrapping round both edges: the
\* screen is back to the other glyph and VF reports the collision
C5_Witness ==
  /\ TwoDraws
  /\ Nib2(opcode) = 0 /\ Nib1(opcode) = 1
  /\ prev2.registers[0] = 63 /\ prev2.registers[1] = 28
  /\ prev2.video[28][1] = 1
  /\ prev1.video[28][1] = 0 /\ prev1.video[28][63] = 1 /\ prev1.video[0][63] = 1
  /\ video[28][1] = 1 /\ video[28][63] = 0
  /\ registers[CARRY_REGISTER] = 1

----------------------------------------------------------------------------
(* BCD *)

(* C6: an Fx33 that succeeds, followed at once by a tick that fetches F265,  *)
(* ends without failure with V0, V1, V2 holding the hundreds, tens and ones *)
(* digits of the value Vx held before the Fx33                              *)
C6_BcdRoundTrip ==
  (TwoTicksMade /\ IsFx(prev1.opcode, 51) /\ opcode = 62053) =>
    LET v == prev2.registers[Nib2(prev1.opcode)]
    IN /\ status = "running"
       /\ registers[0] = v \div 100
       /\ registers[1] = (v \div 10) % 10
       /\ registers[2] = v % 10

\* 190 in V2, itself one of the registers read back: digits 1, 9, 0
C6_Witness ==
  /\ TwoTicksDone /\ IsFx(prev1.opcode, 51) /\ opcode = 62053
  /\ Nib2(prev1.opcode) = 2
  /\ prev2.registers[2] = 190
  /\ registers[0] = 1 /\ registers[1] = 9 /\ registers[2] = 0

----------------------------------------------------------------------------
(* Arithmetic flags *)

Is8xy(op, n) == Nib3(op) = 8 /\ Nib0(op) = n

\* the flag of 8xyn on operands a = Vx, b = Vy
Flag(n, a, b) ==
  CASE n = 4 -> IF a + b > 255 THEN 1 ELSE 0
    [] n = 5 -> IF a > b THEN 1 ELSE 0
    [] n = 6 -> a % 2
    [] n = 7 -> IF b > a THEN 1 ELSE 0
    [] n = 14 -> a \div 128

(* C9: after 8Fy4, 8Fy5, 8Fy6, 8Fy7 or 8FyE, VF holds the flag computed     *)
(* from the register values before the instruction                         *)
C9_FlagInVF ==
  (OneTickDone /\ Nib3(opcode) = 8 /\ Nib0(opcode) \in FlagOps
               /\ Nib2(opcode) = CARRY_REGISTER) =>
    registers[CARRY_REGISTER] =
      Flag(Nib0(opcode), prev1.registers[CARRY_REGISTER], prev1.registers[Nib1(opcode)])

(* C10: 8xy4 never fails, leaves VF = 1 if Vx + Vy > 255 and 0 otherwise,   *)
(* and for x other than F leaves Vx = (Vx + Vy) mod 256; the ROM            *)
(* 60FF 6101 8014 ends its third tick with V0 = 0, VF = 1, PC = 0x206       *)
C10_Add ==
  /\ [][(CanFetchNow /\ Is8xy(Fetched, 4)) =>
          LET x == Nib2(Fetched)
              a == registers[x]
              b == registers[Nib1(Fetched)]
          IN /\ status' = "running"
             /\ registers'[CARRY_REGISTER] = IF a + b > 255 THEN 1 ELSE 0
             /\ x # CARRY_REGISTER => registers'[x] = (a + b) % U8]_vars
  /\ []((rom_file = AddCarryRom /\ prev2.status = "running" /\ prev2.pc = 514) =>
          /\ status = "running"
          /\ registers[0] = 0
          /\ registers[CARRY_REGISTER] = 1
          /\ pc = 518)

\* 255 + 1 in V0 with V1 as the operand: V0 = 0 and the carry is set
C10_Witness ==
  /\ OneTickDone /\ Is8xy(opcode, 4)
  /\ Nib2(opcode) = 0 /\ Nib1(opcode) = 1
  /\ prev1.registers[0] = 255 /\ prev1.registers[1] = 1
  /\ registers[0] = 0 /\ registers[CARRY_REGISTER] = 1
  /\ rom_file # AddCarryRom

----------------------------------------------------------------------------
(* Loading *)

RomFits == Len(rom_file) <= MEMORY_SIZE - ROM_START_ADDRESS

(* C11: load_rom of a ROM longer than 4096 - 0x200 bytes fails and leaves   *)
(* every byte of memory as it was before the load                           *)
C11_RomTooLarge ==
  [][(status = "new" /\ ~RomFits) =>
       /\ status' = "panicked"
       /\ memory' = memory]_vars

(* C16: load_rom of a ROM that fits succeeds and leaves, before the first   *)
(* tick, bytes[i] at memory[0x200 + i], the font at [0x050, 0x0A0), 0 in    *)
(* every other byte, 0 in all registers, I, SP, the stack, both timers and  *)
(* the framebuffer, and PC = 0x200                                          *)
C16_AfterLoad ==
  [][(status = "new" /\ RomFits) =>
       /\ status' = "running"
       /\ \A a \in 0..(MEMORY_SIZE - 1) :
            memory'[a] =
              IF a >= 512 /\ a < 512 + Len(rom_file) THEN rom_file[a - 512 + 1]
              ELSE IF a >= 80 /\ a < 160 THEN FONTSET[a - 80 + 1]
              ELSE 0
       /\ \A i \in 0..15 : registers'[i] = 0 /\ stack'[i] = 0
       /\ index' = 0 /\ sp' = 0 /\ delay_timer' = 0 /\ sound_timer' = 0
       /\ \A r \in 0..31 : \A c \in 0..63 : video'[r][c] = 0
       /\ pc' = 512]_vars

\* the largest ROM loaded, its last byte in the last byte of memory
C16_Witness ==
  /\ status = "running"
  /\ prev1.status = "new"
  /\ Len(rom_file) = MEMORY_SIZE - ROM_START_ADDRESS
  /\ memory[512] = 18
  /\ memory[4095] = rom_file[Len(rom_file)]
  /\ memory[4095] # 0
  /\ memory[80] = 240
  /\ pc = 512

----------------------------------------------------------------------------
(* Dispatch *)

\* the dispatch table: four nibbles per pattern, -1 for a nibble that is free
Patterns ==
  << << 0, 0, 14, 0, "00E0" >>, << 0, 0, 14, 14, "00EE" >>,
     << 1, -1, -1, -1, "1nnn" >>, << 2, -1, -1, -1, "2nnn" >>,
     << 3, -1, -1, -1, "3xkk" >>, << 4, -1, -1, -1, "4xkk" >>,
     << 5, -1, -1, 0, "5xy0" >>, << 6, -1, -1, -1, "6xkk" >>,
     << 7, -1, -1, -1, "7xkk" >>, << 8, -1, -1, 0, "8xy0" >>,
     << 8, -1, -1, 1, "8xy1" >>, << 8, -1, -1, 2, "8xy2" >>,
     << 8, -1, -1, 3, "8xy3" >>, << 8, -1, -1, 4, "8xy4" >>,
     << 8, -1, -1, 5, "8xy5" >>, << 8, -1, -1, 6, "8xy6" >>,
     << 8, -1, -1, 7, "8xy7" >>, << 8, -1, -1, 14, "8xyE" >>,
     << 9, -1, -1, 0, "9xy0" >>, << 10, -1, -1, -1, "Annn" >>,
     << 11, -1, -1, -1, "Bnnn" >>, << 12, -1, -1, -1, "Cxkk" >>,
     << 13, -1, -1, -1, "Dxyn" >>, << 14, -1, 9, 14, "Ex9E" >>,
     << 14, -1, 10, 1, "ExA1" >>, << 15, -1, 0, 7, "Fx07" >>,
     << 15, -1, 0, 10, "Fx0A" >>, << 15, -1, 1, 5, "Fx15" >>,
     << 15, -1, 1, 8, "Fx18" >>, << 15, -1, 1, 14, "Fx1E" >>,
     << 15, -1, 2, 9, "Fx29" >>, << 15, -1, 3, 3, "Fx33" >>,
     << 15, -1, 5, 5, "Fx55" >>, << 15, -1, 6, 5, "Fx65" >> >>

Fits(op, pat) ==
  /\ pat[1] = Nib3(op)
  /\ pat[2] \in {-1, Nib2(op)}
  /\ pat[3] \in {-1, Nib1(op)}
  /\ pat[4] \in {-1, Nib0(op)}

\* the names of the patterns that op matches
Matches(op) == { Patterns[i][5] : i \in { j \in 1..Len(Patterns) : Fits(op, Patterns[j]) } }

\* the handler that belongs to a pattern, run on machine s with random byte r
HandlerOf(name, s, r) ==
  LET op == s.opcode
      x == Nib2(op)
      y == Nib1(op)
  IN CASE name = "00E0" -> op_00e0(s)
       [] name = "00EE" -> op_00ee(s)
       [] name = "1nnn" -> op_1nnn(s, NNN(op))
       [] name = "2nnn" -> op_2nnn(s, NNN(op))
       [] name = "3xkk" -> op_3xkk(s, x, KK(op))
       [] name = "4xkk" -> op_4xkk(s, x, KK(op))
       [] name = "5xy0" -> op_5xy0(s, x, y)
       [] name = "6xkk" -> op_6xkk(s, x, KK(op))
       [] name = "7xkk" -> op_7xkk(s, x, KK(op))
       [] name = "8xy0" -> op_8xy0(s, x, y)
       [] name = "8xy1" -> op_8xy1(s, x, y)
       [] name = "8xy2" -> op_8xy2(s, x, y)
       [] name = "8xy3" -> op_8xy3(s, x, y)
       [] name = "8xy4" -> op_8xy4(s, x, y)
       [] name = "8xy5" -> op_8xy5(s, x, y)
       [] name = "8xy6" -> op_8xy6(s, x)
       [] name = "8xy7" -> op_8xy7(s, x, y)
       [] name = "8xyE" -> op_8xye(s, x)
       [] name = "9xy0" -> op_9xy0(s, x, y)
       [] name = "Annn" -> op_annn(s, NNN(op))
       [] name = "Bnnn" -> op_bnnn(s, NNN(op))
       [] name = "Cxkk" -> op_cxkk(s, x, KK(op), r)
       [] name = "Dxyn" -> op_dxyn(s, x, y, Nib0(op))
       [] name = "Ex9E" -> op_ex9e(s, x)
       [] name = "ExA1" -> op_exa1(s, x)
       [] name = "Fx07" -> op_fx07(s, x)
       [] name = "Fx0A" -> op_fx0a(s, x)
       [] name = "Fx15" -> op_fx15(s, x)
       [] name = "Fx18" -> op_fx18(s, x)
       [] name = "Fx1E" -> op_fx1e(s, x)
       [] name = "Fx29" -> op_fx29(s, x)
       [] name = "Fx33" -> op_fx33(s, x)
       [] name = "Fx55" -> op_fx55(s, x)
       [] name = "Fx65" -> op_fx65(s, x)

\* the machine as the tick hands it to the dispatch: keypad latched, timers
\* stepped, opcode fetched, PC advanced
PostFetch(kp) ==
  LET s1 == tick_timers(Machine, kp)
  IN [s1 EXCEPT !.opcode = Fetched, !.pc = s1.pc + 2]

(* C12: a tick whose fetched opcode matches no pattern of the table ends in *)
(* a failure with no handler run (the machine is as the fetch left it); an  *)
(* opcode that matches a pattern matches only that one, and the tick leaves *)
(* the machine as the handler of that pattern leaves it                     *)
C12_Dispatch ==
  [][CanFetchNow =>
       LET ms == Matches(Fetched)
           s == PostFetch(keypad')
       IN IF ms = {}
          THEN Machine' = Panic(s)
          ELSE /\ Cardinality(ms) = 1
               /\ \A name \in ms :
                    \E r \in (IF name = "Cxkk" THEN 0..(U8 - 1) ELSE {0}) :
                      Machine' = HandlerOf(name, s, r)]_vars

\* 5xy1 fetched after two completed instructions: a failure, nothing else touched
C12_Witness ==
  /\ status = "panicked"
  /\ prev1.status = "running"
  /\ opcode = Ins(5, 0, 1, 1)
  /\ Matches(opcode) = {}
  /\ pc = prev1.pc + 2
  /\ registers = prev1.registers
  /\ registers[0] = 12 /\ registers[1] = 10

----------------------------------------------------------------------------
(* Font lookup and key tests *)

IsFx29(op) == IsFx(op, 41)
IsEx9E(op) == Nib3(op) = 14 /\ op % 256 = 158
IsExA1(op) == Nib3(op) = 14 /\ op % 256 = 161

(* C13: for every value of Vx, a tick that runs Fx29 returns and leaves     *)
(* I = 0x050 + 5 * (Vx & 0xF), the first byte of one of the sixteen glyphs  *)
C13_FontLookup ==
  [][(CanFetchNow /\ IsFx29(Fetched)) =>
       /\ status' = "running"
       /\ index' = 80 + 5 * (registers[Nib2(Fetched)] % 16)]_vars

(* C14: for every value of Vx, a tick that runs Ex9E or ExA1 returns, tests *)
(* the latched key Vx & 0xF, and changes no register: Ex9E ends at PC + 4   *)
(* if that key is pressed and at PC + 2 if not, ExA1 the other way round    *)
C14_KeyTest ==
  [][(CanFetchNow /\ (IsEx9E(Fetched) \/ IsExA1(Fetched))) =>
       LET pressed == keypad'[registers[Nib2(Fetched)] % 16]
       IN /\ status' = "running"
          /\ registers' = registers
          /\ pc' = IF pressed = IsEx9E(Fetched) THEN pc + 4 ELSE pc + 2]_vars

----------------------------------------------------------------------------
(* The reference draw *)

\* the sprite bytes of the draw about to run all lie inside memory
SpriteInMemory == Nib0(Fetched) = 0 \/ index + Nib0(Fetched) - 1 < MEMORY_SIZE

\* bit (7 - col) of sprite byte row, before the draw
RefBit(row, col) == (memory[index + row] \div (2 ^ (7 - col))) % 2

\* the framebuffer and VF after a sprite of n rows is XORed in at (vx, vy),
\* both axes wrapping; a pixel (r, c) is sprite cell (r - vy, c - vx)
RefVideo(vx, vy, n) ==
  [r \in 0..31 |-> [c \in 0..63 |->
     LET row == (r + 32 - (vy % 32)) % 32
         col == (c + 64 - (vx % 64)) % 64
     IN IF row < n /\ col < 8
        THEN (video[r][c] + RefBit(row, col)) % 2
        ELSE video[r][c]]]

RefCollision(vx, vy, n) ==
  \E row \in 0..(n - 1) : \E col \in 0..7 :
    /\ RefBit(row, col) = 1
    /\ video[(vy + row) % 32][(vx + col) % 64] = 1

(* C17: for x and y other than 0xF, a Dxyn whose sprite lies in memory      *)
(* leaves the framebuffer as the reference draw does (the pixel at          *)
(* ((Vx + col) mod 64, (Vy + row) mod 32) XORed with bit 7 - col of         *)
(* memory[I + row], every other pixel unchanged, both axes wrapping) and    *)
(* VF = 1 iff a sprite bit 1 met a lit pixel, else VF = 0                   *)
C17_ReferenceDraw ==
  [][(/\ CanFetchNow /\ IsDraw(Fetched) /\ SpriteInMemory
      /\ Nib2(Fetched) # 15 /\ Nib1(Fetched) # 15) =>
       LET vx == registers[Nib2(Fetched)]
           vy == registers[Nib1(Fetched)]
           n == Nib0(Fetched)
       IN /\ status' = "running"
          /\ video' = RefVideo(vx, vy, n)
          /\ registers'[15] = IF RefCollision(vx, vy, n) THEN 1 ELSE 0]_vars

\* glyph 0 drawn over glyph 1 at (63, 28): the sprite wraps on both axes,
\* lights (63, 28) and (63, 0), erases (0, 0) and reports the collision
C17_Witness ==
  /\ OneTickDone
  /\ IsDraw(opcode) /\ Nib2(opcode) = 0 /\ Nib1(opcode) = 1 /\ Nib0(opcode) = 5
  /\ index = 80
  /\ prev1.registers[0] = 63 /\ prev1.registers[1] = 28
  /\ prev1.video[28][63] = 0 /\ video[28][63] = 1
  /\ prev1.video[0][63] = 0 /\ video[0][63] = 1
  /\ prev1.video[0][0] = 1 /\ video[0][0] = 0
  /\ registers[15] = 1

(* C18: also when x or y is 0xF, a Dxyn whose sprite lies in memory places  *)
(* the sprite at the Vx and Vy held before the instruction: the framebuffer *)
(* ends as the reference draw at those coordinates leaves it, whatever the  *)
(* draw does to VF                                                          *)
C18_StartCoordinates ==
  [][(CanFetchNow /\ IsDraw(Fetched) /\ SpriteInMemory) =>
       /\ status' = "running"
       /\ video' = RefVideo(registers[Nib2(Fetched)], registers[Nib1(Fetched)],
                            Nib0(Fetched))]_vars

----------------------------------------------------------------------------
(* Subtraction *)

IsSub(op) == Nib3(op) = 8 /\ Nib0(op) = 5
IsSubN(op) == Nib3(op) = 8 /\ Nib0(op) = 7

(* C19: for x other than 0xF and any y, with a = Vx and b = Vy before the   *)
(* instruction, 8xy5 leaves Vx = (a - b) mod 256 and VF = 1 iff a > b, and  *)
(* 8xy7 leaves Vx = (b - a) mod 256 and VF = 1 iff b > a                    *)
C19_Subtract ==
  [][(CanFetchNow /\ (IsSub(Fetched) \/ IsSubN(Fetched)) /\ Nib2(Fetched) # 15) =>
       LET a == registers[Nib2(Fetched)]
           b == registers[Nib1(Fetched)]
           m == IF IsSub(Fetched) THEN a ELSE b
           s == IF IsSub(Fetched) THEN b ELSE a
       IN /\ status' = "running"
          /\ registers'[Nib2(Fetched)] = (m + 256 - s) % 256
          /\ registers'[15] = IF m > s THEN 1 ELSE 0]_vars

----------------------------------------------------------------------------
(* Register store and load *)

IsFx55(op) == IsFx(op, 85)
IsFx65(op) == IsFx(op, 101)

(* C20: Fx55 with I + x inside memory copies V0..Vx to memory[I .. I + x]   *)
(* and changes no other byte and no register; Fx65 copies memory[I .. I+x]  *)
(* to V0..Vx and changes no register above Vx and no memory; both leave I   *)
(* as it was                                                                *)
C20_StoreLoad ==
  [][(/\ CanFetchNow /\ (IsFx55(Fetched) \/ IsFx65(Fetched))
      /\ index + Nib2(Fetched) < MEMORY_SIZE) =>
       LET x == Nib2(Fetched)
       IN /\ status' = "running"
          /\ index' = index
          /\ IF IsFx55(Fetched)
             THEN /\ registers' = registers
                  /\ memory' = [a \in 0..(MEMORY_SIZE - 1) |->
                                  IF a >= index /\ a <= index + x
                                  THEN registers[a - index] ELSE memory[a]]
             ELSE /\ memory' = memory
                  /\ registers' = [i \in 0..15 |->
                                     IF i <= x THEN memory[index + i]
                                     ELSE registers[i]]]_vars

\* F155 at I = 4094 wrote V0 and V1 into the last two bytes of memory, then
\* F165 at the font loaded V0 and V1 and left VF alone
C20_Witness ==
  /\ OneTickDone
  /\ opcode = Ins(15, 1, 6, 5)
  /\ index = 80
  /\ memory[4094] = 3 /\ memory[4095] = 34 /\ memory[4093] = 0
  /\ prev1.registers[0] = 3 /\ prev1.registers[1] = 34
  /\ registers[0] = 240 /\ registers[1] = 144
  /\ registers[2] = 0 /\ registers[15] = 238

----------------------------------------------------------------------------
(* Timers during a key wait *)

\* the last two ticks both waited on the same Fx0A with no key pressed
TwoWaits ==
  /\ TwoTicksDone
  /\ IsFx0A(opcode) /\ IsFx0A(prev1.opcode)
  /\ pc = prev1.pc /\ pc = prev2.pc

Max0(n) == IF n > 0 THEN n ELSE 0

(* C21: a tick that waits in Fx0A with no key pressed still steps both      *)
(* timers down by one (0 stays 0) and leaves PC on the Fx0A, so that after  *)
(* k waiting ticks the timers are max(d - k, 0) and max(s - k, 0): they     *)
(* reach 0 and stay there while the wait lasts                              *)
C21_WaitCountsDown ==
  /\ [][(CanFetchNow /\ IsFx0A(Fetched) /\ keypad' = NoKey) =>
          /\ status' = "running"
          /\ pc' = pc
          /\ delay_timer' = Max0(delay_timer - 1)
          /\ sound_timer' = Max0(sound_timer - 1)]_vars
  /\ [](TwoWaits =>
          /\ delay_timer = Max0(prev2.delay_timer - 2)
          /\ sound_timer = Max0(prev2.sound_timer - 2))

\* a wait in which the delay timer went 9, 8, 7 while the sound timer,
\* already at 1, went to 0 and stayed there
C21_Witness ==
  /\ TwoWaits
  /\ prev2.delay_timer = 9 /\ prev1.delay_timer = 8 /\ delay_timer = 7
  /\ prev2.sound_timer = 1 /\ prev1.sound_timer = 0 /\ sound_timer = 0

----------------------------------------------------------------------------
(* Accesses outside memory *)

IsFx33(op) == IsFx(op, 51)

\* no byte below address a changes in the step
LowMemoryKept(a) ==
  \A b \in 0..(MEMORY_SIZE - 1) : b < a => memory'[b] = memory[b]

(* C22: a fetch with PC + 1 >= 4096, a Dxyn that reads a row at             *)
(* I + row >= 4096, and an Fx33, Fx55 or Fx65 that reaches I + i >= 4096    *)
(* each end the tick in failure; the address is not wrapped or masked (no   *)
(* byte below I changes), and memory stays the 4096 bytes 0..4095           *)
C22_OutOfRange ==
  [][status = "running" =>
       /\ DOMAIN memory' = 0..(MEMORY_SIZE - 1)
       /\ ~CanFetch(Machine) =>
            status' = "panicked" /\ memory' = memory
       /\ (/\ CanFetch(Machine) /\ IsDraw(Fetched)
           /\ Nib0(Fetched) >= 1 /\ index + Nib0(Fetched) - 1 >= MEMORY_SIZE) =>
            status' = "panicked" /\ memory' = memory
       /\ (CanFetch(Machine) /\ IsFx33(Fetched) /\ index + 2 >= MEMORY_SIZE) =>
            status' = "panicked" /\ LowMemoryKept(index)
       /\ (CanFetch(Machine) /\ IsFx55(Fetched) /\ index + Nib2(Fetched) >= MEMORY_SIZE) =>
            status' = "panicked" /\ LowMemoryKept(index)
       /\ (CanFetch(Machine) /\ IsFx65(Fetched) /\ index + Nib2(Fetched) >= MEMORY_SIZE) =>
            status' = "panicked" /\ memory' = memory]_vars

\* F133 with V1 = 234 at I = 4094: the digits 2 and 3 are in the last two
\* bytes, the store of the third failed, byte 0 is untouched
C22_Witness ==
  /\ status = "panicked"
  /\ prev1.status = "running"
  /\ opcode = Ins(15, 1, 3, 3)
  /\ index = MEMORY_SIZE - 2
  /\ registers[1] = 234
  /\ memory[4094] = 2 /\ memory[4095] = 3
  /\ memory[0] = 0

----------------------------------------------------------------------------
(* Addition to I *)

IsFx1E(op) == IsFx(op, 30)

(* C23: for every I and Vx a tick that runs Fx1E returns, leaves            *)
(* I = (I + Vx) mod 65536, also when I + Vx > 65535, and changes no         *)
(* register                                                                 *)
C23_AddIndex ==
  [][(CanFetchNow /\ IsFx1E(Fetched)) =>
       /\ status' = "running"
       /\ index' = (index + registers[Nib2(Fetched)]) % 65536
       /\ registers' = registers]_vars

----------------------------------------------------------------------------
(* What a tick may change *)

IsCls(op) == op = 224

\* the bytes of memory outside lo..hi are as before the step
MemoryKeptOutside(lo, hi) ==
  \A a \in 0..(MEMORY_SIZE - 1) : (a < lo \/ a > hi) => memory'[a] = memory[a]

(* C24: a tick changes memory only if it runs Fx33, and then only the bytes *)
(* I, I+1, I+2, or Fx55, and then only the bytes I .. I+x; a tick changes   *)
(* the framebuffer only if it runs 00E0 or Dxyn                             *)
C24_Frame ==
  [][status = "running" =>
       /\ IF ~CanFetch(Machine) THEN memory' = memory
          ELSE IF IsFx33(Fetched) THEN MemoryKeptOutside(index, index + 2)
          ELSE IF IsFx55(Fetched) THEN MemoryKeptOutside(index, index + Nib2(Fetched))
          ELSE memory' = memory
       /\ (CanFetch(Machine) /\ (IsCls(Fetched) \/ IsDraw(Fetched))) \/ video' = video]_vars

\* F133 with V1 = 10 on the font: the bytes 0x50..0x52 of glyph 0 now hold
\* the digits 0, 1, 0, the byte after them and the lit framebuffer are as
\* they were
C24_Witness ==
  /\ OneTickDone
  /\ opcode = Ins(15, 1, 3, 3)
  /\ index = 80
  /\ memory[80] = 0 /\ memory[81] = 1 /\ memory[82] = 0
  /\ memory[83] = FONTSET[4]
  /\ memory[512] = 96
  /\ video = prev1.video
  /\ video[10][12] = 1

====
